---- MODULE Spec2Model ----
(***************************************************************************)
(* Model of streamlit_app.py: a Streamlit PDF question-answering app.      *)
(*                                                                         *)
(* Every browser session runs main() from top to bottom on each widget     *)
(* interaction (a "script run"), in its own thread.  Session state         *)
(* (st.session_state) is private to a session; the Chroma persistence      *)
(* directory "chroma_db" with its one collection "myRAG" is a fixed path   *)
(* shared by every session of the server process.                          *)
(*                                                                         *)
(* A script run is split into steps at the calls that read or write the    *)
(* shared directory, so that the runs of two sessions interleave there.    *)
(* Spec has one session at work; SpecShared has every session at work on   *)
(* the same storage path.                                                  *)
(* SpecFair is Spec with script runs that go on to their end; SpecSplit    *)
(* applies the text splitter of create_vector_db to every bounded text.    *)
(***************************************************************************)
EXTENDS Integers, Sequences, FiniteSets, TLC

\* ------------------------------------------------------------------ bounds
Sessions == {"s1", "s2"}          \* browser sessions of one server process
Docs     == {"doc1", "doc2"}      \* names of the PDFs a user can upload
SharedDocs == {"doc1"}            \* the same, when several sessions are modelled
Prompts  == {"q1"}                \* questions a user can type
MaxMsgs     == 3                  \* questions are asked while the history is shorter
MaxSharedMsgs == 1                \* the same, when several sessions are modelled
MaxVariants == 4                  \* cap on the lines the LLM returns as variants
Chars    == {"a", " ", "\n"}      \* characters of an extracted text
MaxLen      == 4                  \* cap on the length of an extracted text

None == "None"

VARIABLES
    \* shared persistent storage (path "chroma_db", collection "myRAG")
    chroma_db,      \* BOOLEAN: the directory exists
    myRAG,          \* BOOLEAN: the collection exists in the directory
    entries,        \* sources (document names) of the chunks stored in it
    \* st.session_state, per session
    vector_db,      \* None or "Chroma" (the index handle)
    file_upload,    \* None (absent) or the uploaded document
    pdf_pages,      \* None (absent) or the document the page images are of
    messages,       \* the conversation: sequence of [role, content]
    \* widgets, per session
    uploader,       \* value of st.file_uploader: None or a document
    delete_collection, \* BOOLEAN: the delete button was clicked for this run
    prompt,         \* value of st.chat_input for this run: None or a question
    \* control, per session
    pc,             \* position of the session's script run
    temp_dir,       \* "unbound" | "exists" | "removed": create_vector_db's temp_dir
    raised,         \* BOOLEAN: an exception is propagating out of create_vector_db
    rmtree_calls,   \* shutil.rmtree("chroma_db") calls made by the current delete_vector_db
    rmtree_failed,  \* BOOLEAN: the last of them raised
    shown,          \* the status element the run last put on the page
    \* one question's processing, per session
    llm_calls,      \* language-model invocations made by the current run
    queries,        \* the query strings the retriever searched the index with
    context,        \* sources of the chunks the retriever returned
    \* history of the storage
    ingested,       \* the document of the last build that persisted its chunks
    superseded,     \* the documents built before it (other than it)
    deleted,        \* per session: a delete has cleared the session and the
                    \* user has put no document in the uploader since
    \* the text splitter at work on one extracted text
    text,           \* page_content of the document: a sequence of characters
    chunks,         \* page_content of the chunks split_documents returned
    split_done      \* BOOLEAN: split_documents has returned

storage == <<chroma_db, myRAG, entries>>
session == <<vector_db, file_upload, pdf_pages, messages>>
widgets == <<uploader, delete_collection, prompt>>
build   == <<temp_dir, raised>>
destroy == <<rmtree_calls, rmtree_failed>>
ask     == <<llm_calls, queries, context>>
history == <<ingested, superseded>>
splitter == <<text, chunks, split_done>>
vars    == <<storage, session, widgets, pc, build, destroy, shown, ask, history,
             deleted, splitter>>

\* A query string: <<question, 0>> is the user's original question,
\* <<question, i>> the i-th variant the language model generated for it.
Original(q)   == <<q, 0>>
Variant(q, i) == <<q, i>>

InitProgram ==
    /\ chroma_db = FALSE /\ myRAG = FALSE /\ entries = {}
    /\ vector_db = [s \in Sessions |-> None]
    /\ file_upload = [s \in Sessions |-> None]
    /\ pdf_pages = [s \in Sessions |-> None]
    /\ messages = [s \in Sessions |-> <<>>]
    /\ uploader = [s \in Sessions |-> None]
    /\ delete_collection = [s \in Sessions |-> FALSE]
    /\ prompt = [s \in Sessions |-> None]
    /\ pc = [s \in Sessions |-> "idle"]
    /\ temp_dir = [s \in Sessions |-> "unbound"]
    /\ raised = [s \in Sessions |-> FALSE]
    /\ rmtree_calls = [s \in Sessions |-> 0]
    /\ rmtree_failed = [s \in Sessions |-> FALSE]
    /\ shown = [s \in Sessions |-> "none"]
    /\ llm_calls = [s \in Sessions |-> 0]
    /\ queries = [s \in Sessions |-> {}]
    /\ context = [s \in Sessions |-> {}]
    /\ ingested = None
    /\ superseded = {}
    /\ deleted = [s \in Sessions |-> FALSE]

Init ==
    /\ InitProgram
    /\ text = <<>> /\ chunks = <<>> /\ split_done = FALSE

\* ------------------------------------------------------- user interactions
\* Each interaction with a widget starts one script run of the session.

\* A script run starts: the page is drawn anew.
StartRun(s) ==
    /\ pc' = [pc EXCEPT ![s] = "main"]
    /\ shown' = [shown EXCEPT ![s] = "none"]
    /\ llm_calls' = [llm_calls EXCEPT ![s] = 0]
    /\ temp_dir' = [temp_dir EXCEPT ![s] = "unbound"]
    /\ UNCHANGED <<storage, session, raised, queries, context, history, splitter>>

\* The user puts document d in the file uploader (replacing what is there).
Upload(s, d) ==
    /\ pc[s] = "idle"
    /\ uploader[s] # d
    /\ uploader' = [uploader EXCEPT ![s] = d]
    /\ deleted' = [deleted EXCEPT ![s] = FALSE]
    /\ delete_collection' = [delete_collection EXCEPT ![s] = FALSE]
    /\ prompt' = [prompt EXCEPT ![s] = None]
    /\ UNCHANGED destroy
    /\ StartRun(s)

\* The user removes the file from the uploader.
RemoveFile(s) ==
    /\ pc[s] = "idle"
    /\ uploader[s] # None
    /\ uploader' = [uploader EXCEPT ![s] = None]
    /\ delete_collection' = [delete_collection EXCEPT ![s] = FALSE]
    /\ prompt' = [prompt EXCEPT ![s] = None]
    /\ UNCHANGED destroy
    /\ StartRun(s)
    /\ UNCHANGED deleted

\* The user clicks "Delete collection".
ClickDelete(s) ==
    /\ pc[s] = "idle"
    /\ delete_collection' = [delete_collection EXCEPT ![s] = TRUE]
    /\ prompt' = [prompt EXCEPT ![s] = None]
    /\ UNCHANGED uploader
    /\ UNCHANGED destroy
    /\ StartRun(s)
    /\ UNCHANGED deleted

\* The user submits question q in the chat input.
Ask(s, q) ==
    /\ pc[s] = "idle"
    /\ prompt' = [prompt EXCEPT ![s] = q]
    /\ delete_collection' = [delete_collection EXCEPT ![s] = FALSE]
    /\ UNCHANGED uploader
    /\ UNCHANGED destroy
    /\ StartRun(s)
    /\ UNCHANGED deleted

\* Any other interaction (model select box, zoom slider) reruns the script.
Rerun(s) ==
    /\ pc[s] = "idle"
    /\ delete_collection' = [delete_collection EXCEPT ![s] = FALSE]
    /\ prompt' = [prompt EXCEPT ![s] = None]
    /\ UNCHANGED uploader
    /\ UNCHANGED destroy
    /\ StartRun(s)
    /\ UNCHANGED deleted

\* ------------------------------------------------------------------ main()
\* Where main() goes after the uploader block: the delete button, then the chat.
AfterUploadBlock(s) == IF delete_collection[s] THEN "dvd_try" ELSE "chat"

\* Mutant of Main: a file in the uploader starts a build whether or not the
\* session holds an index handle.
MainAlwaysBuilds(s) ==
    /\ pc[s] = "main"
    /\ IF uploader[s] # None
       THEN /\ file_upload' = [file_upload EXCEPT ![s] = uploader[s]]
            /\ pc' = [pc EXCEPT ![s] = "cvd_clean"]
       ELSE /\ UNCHANGED file_upload
            /\ pc' = [pc EXCEPT ![s] = AfterUploadBlock(s)]
    /\ UNCHANGED <<storage, vector_db, pdf_pages, messages, widgets, build,
                   destroy, shown, ask, history>>
    /\ UNCHANGED splitter
    /\ UNCHANGED deleted

\* main(), lines 257-276: the session keys are initialised (an absent key and
\* a None value are the same value None here), the uploaded file is stored and
\* a build is started when the session holds no index handle.
Main(s) ==
    /\ pc[s] = "main"
    /\ IF uploader[s] # None
       THEN /\ file_upload' = [file_upload EXCEPT ![s] = uploader[s]]
            /\ pc' = [pc EXCEPT ![s] =
                        IF vector_db[s] = None THEN "cvd_clean" ELSE "pages"]
       ELSE /\ UNCHANGED file_upload
            /\ pc' = [pc EXCEPT ![s] = AfterUploadBlock(s)]
    /\ UNCHANGED <<storage, vector_db, pdf_pages, messages, widgets, build,
                   destroy, shown, ask, history>>
    /\ UNCHANGED splitter
    /\ UNCHANGED deleted

\* main(), lines 278-279: the page images of the uploaded file.
Pages(s) ==
    /\ pc[s] = "pages"
    /\ pdf_pages' = [pdf_pages EXCEPT ![s] = uploader[s]]
    /\ pc' = [pc EXCEPT ![s] = AfterUploadBlock(s)]
    /\ UNCHANGED <<storage, vector_db, file_upload, messages, widgets, build,
                   destroy, shown, ask, history>>
    /\ UNCHANGED splitter
    /\ UNCHANGED deleted

\* ------------------------------------------------------ create_vector_db()
\* shutil.rmtree("chroma_db") succeeding: the directory and all it holds go.
RemoveTree ==
    /\ chroma_db' = FALSE
    /\ myRAG' = FALSE
    /\ entries' = {}

\* Lines 85-92: an existing directory is removed; a failure of the removal is
\* logged as a warning and the build goes on.
CleanExisting(s) ==
    /\ pc[s] = "cvd_clean"
    /\ \/ /\ ~chroma_db
          /\ UNCHANGED storage
       \/ /\ chroma_db
          /\ RemoveTree
       \/ /\ chroma_db
          /\ UNCHANGED storage            \* rmtree raised: warning only
    /\ pc' = [pc EXCEPT ![s] = "cvd_client"]
    /\ UNCHANGED <<session, widgets, build, destroy, shown, ask, history>>
    /\ UNCHANGED splitter
    /\ UNCHANGED deleted

\* Line 95, get_chroma_client(): a persistent client on the path creates the
\* directory when it is not there.
GetClient(s) ==
    /\ pc[s] = "cvd_client"
    /\ chroma_db' = TRUE
    /\ pc' = [pc EXCEPT ![s] = "cvd_extract"]
    /\ UNCHANGED <<myRAG, entries, session, widgets, build, destroy, shown, ask,
                   history>>
    /\ UNCHANGED splitter
    /\ UNCHANGED deleted

\* Lines 98-107: the upload is staged in a fresh temporary directory and its
\* text extracted; pdfplumber raises on a document it cannot parse.
Extract(s) ==
    /\ pc[s] = "cvd_extract"
    /\ temp_dir' = [temp_dir EXCEPT ![s] = "exists"]
    /\ \/ /\ pc' = [pc EXCEPT ![s] = "cvd_from_documents"]
          /\ UNCHANGED raised
       \/ /\ pc' = [pc EXCEPT ![s] = "cvd_finally"]
          /\ raised' = [raised EXCEPT ![s] = TRUE]
    /\ UNCHANGED <<storage, session, widgets, destroy, shown, ask, history>>
    /\ UNCHANGED splitter
    /\ UNCHANGED deleted

\* Lines 109-131: Chroma.from_documents gets or creates the collection "myRAG"
\* through the client, embeds the chunks and adds them to the collection,
\* whatever the collection already holds; then persist().  The embedding
\* provider or persist() may raise; the client raises when the directory has
\* been removed under it.
FromDocuments(s) ==
    /\ pc[s] = "cvd_from_documents"
    /\ pc' = [pc EXCEPT ![s] = "cvd_finally"]
    /\ \/ /\ ~chroma_db                               \* storage gone: raises
          /\ raised' = [raised EXCEPT ![s] = TRUE]
          /\ UNCHANGED <<storage, history>>
       \/ /\ chroma_db                                \* embedding raises
          /\ myRAG' = TRUE
          /\ raised' = [raised EXCEPT ![s] = TRUE]
          /\ UNCHANGED <<chroma_db, entries, history>>
       \/ /\ chroma_db                                \* raises after chunks were added
          /\ myRAG' = TRUE
          /\ entries' = entries \cup {uploader[s]}
          /\ raised' = [raised EXCEPT ![s] = TRUE]
          /\ UNCHANGED <<chroma_db, history>>
       \/ /\ chroma_db                                \* built and persisted
          /\ myRAG' = TRUE
          /\ entries' = entries \cup {uploader[s]}
          /\ ingested' = uploader[s]
          /\ superseded' = (superseded \cup {ingested}) \ {uploader[s], None}
          /\ UNCHANGED <<chroma_db, raised>>
    /\ UNCHANGED <<session, widgets, temp_dir, destroy, shown, ask>>
    /\ UNCHANGED splitter
    /\ UNCHANGED deleted

\* Lines 135-141 and 276: the finally block removes the temporary directory (a
\* failure is logged as a warning); then create_vector_db returns the handle,
\* which main() stores, or the exception leaves main() and ends the script run.
Finally(s) ==
    /\ pc[s] = "cvd_finally"
    /\ \/ temp_dir' = [temp_dir EXCEPT ![s] = "removed"]
       \/ UNCHANGED temp_dir                          \* rmtree raised: warning only
    /\ IF raised[s]
       THEN /\ pc' = [pc EXCEPT ![s] = "idle"]
            /\ shown' = [shown EXCEPT ![s] = "exception"]
            /\ UNCHANGED vector_db
       ELSE /\ pc' = [pc EXCEPT ![s] = "pages"]
            /\ vector_db' = [vector_db EXCEPT ![s] = "Chroma"]
            /\ UNCHANGED shown
    /\ raised' = [raised EXCEPT ![s] = FALSE]
    /\ UNCHANGED <<storage, file_upload, pdf_pages, messages, widgets, destroy,
                   ask, history>>
    /\ UNCHANGED splitter
    /\ UNCHANGED deleted

\* ------------------------------------------------------ delete_vector_db()
\* Mutant of ClearSession: "messages" is popped with the other keys.
ClearSessionAndHistory(s) ==
    /\ pdf_pages' = [pdf_pages EXCEPT ![s] = None]
    /\ file_upload' = [file_upload EXCEPT ![s] = None]
    /\ vector_db' = [vector_db EXCEPT ![s] = None]
    /\ shown' = [shown EXCEPT ![s] = "success"]
    /\ deleted' = [deleted EXCEPT ![s] = TRUE]
    /\ messages' = [messages EXCEPT ![s] = <<>>]

\* Lines 231-236: the session keys are popped and success is reported.
\* deleted records that this happened.
ClearSession(s) ==
    /\ pdf_pages' = [pdf_pages EXCEPT ![s] = None]
    /\ file_upload' = [file_upload EXCEPT ![s] = None]
    /\ vector_db' = [vector_db EXCEPT ![s] = None]
    /\ shown' = [shown EXCEPT ![s] = "success"]
    /\ deleted' = [deleted EXCEPT ![s] = TRUE]
    /\ UNCHANGED messages

\* Mutant of DeleteAbsent: the client is made before the directory is looked
\* for, which creates the directory.
DeleteAbsentMakesClient(s) ==
    /\ pc[s] = "dvd_try"
    /\ ~chroma_db
    /\ chroma_db' = TRUE
    /\ ClearSession(s)
    /\ pc' = [pc EXCEPT ![s] = "rerun"]
    /\ UNCHANGED <<myRAG, entries, widgets, build, destroy, ask, history>>
    /\ UNCHANGED splitter

\* Line 207 finding no directory: nothing is removed; lines 231-236 follow,
\* which touch the session only.
DeleteAbsent(s) ==
    /\ pc[s] = "dvd_try"
    /\ ~chroma_db
    /\ ClearSession(s)
    /\ pc' = [pc EXCEPT ![s] = "rerun"]
    /\ UNCHANGED <<storage, widgets, build, destroy, ask, history>>
    /\ UNCHANGED splitter

\* Lines 207-221, the directory exists: a client is made, the collection is
\* deleted when the client lists it, and the directory is removed.  Whatever
\* raises on the way is logged and leads to the retry.
DeleteTry(s) ==
    /\ pc[s] = "dvd_try"
    /\ chroma_db
    /\ \/ /\ RemoveTree                    \* collection deleted, rmtree done
          /\ rmtree_calls' = [rmtree_calls EXCEPT ![s] = 1]
          /\ rmtree_failed' = [rmtree_failed EXCEPT ![s] = FALSE]
          /\ pc' = [pc EXCEPT ![s] = "dvd_clear"]
       \/ /\ myRAG' = FALSE                \* collection deleted, rmtree raised
          /\ entries' = {}
          /\ UNCHANGED chroma_db
          /\ rmtree_calls' = [rmtree_calls EXCEPT ![s] = 1]
          /\ rmtree_failed' = [rmtree_failed EXCEPT ![s] = TRUE]
          /\ pc' = [pc EXCEPT ![s] = "dvd_retry"]
       \/ /\ UNCHANGED storage             \* the client calls raised
          /\ UNCHANGED destroy
          /\ pc' = [pc EXCEPT ![s] = "dvd_retry"]
    /\ UNCHANGED <<session, widgets, build, shown, ask, history>>
    /\ UNCHANGED splitter
    /\ UNCHANGED deleted

\* Mutant of DeleteRetry: a failed retry is retried.
DeleteRetryAgain(s) ==
    /\ pc[s] = "dvd_retry"
    /\ rmtree_calls[s] < 4
    /\ rmtree_calls' = [rmtree_calls EXCEPT ![s] = @ + 1]
    /\ \/ /\ chroma_db
          /\ RemoveTree
          /\ rmtree_failed' = [rmtree_failed EXCEPT ![s] = FALSE]
          /\ pc' = [pc EXCEPT ![s] = "dvd_clear"]
       \/ /\ UNCHANGED storage
          /\ rmtree_failed' = [rmtree_failed EXCEPT ![s] = TRUE]
          /\ pc' = [pc EXCEPT ![s] =
                        IF rmtree_calls[s] < 3 THEN "dvd_retry" ELSE "dvd_clear"]
    /\ UNCHANGED <<session, widgets, build, shown, ask, history>>
    /\ UNCHANGED splitter
    /\ UNCHANGED deleted

\* Lines 222-228: after a sleep, shutil.rmtree once more; a second failure is
\* logged and nothing else.
DeleteRetry(s) ==
    /\ pc[s] = "dvd_retry"
    /\ rmtree_calls' = [rmtree_calls EXCEPT ![s] = @ + 1]
    /\ \/ /\ chroma_db
          /\ RemoveTree
          /\ rmtree_failed' = [rmtree_failed EXCEPT ![s] = FALSE]
       \/ /\ UNCHANGED storage
          /\ rmtree_failed' = [rmtree_failed EXCEPT ![s] = TRUE]
    /\ pc' = [pc EXCEPT ![s] = "dvd_clear"]
    /\ UNCHANGED <<session, widgets, build, shown, ask, history>>
    /\ UNCHANGED splitter
    /\ UNCHANGED deleted

\* Lines 230-239, reached on every path through the removal block.
DeleteClear(s) ==
    /\ pc[s] = "dvd_clear"
    /\ ClearSession(s)
    /\ pc' = [pc EXCEPT ![s] = "rerun"]
    /\ UNCHANGED <<storage, widgets, build, destroy, ask, history>>
    /\ UNCHANGED splitter

\* Line 240, st.rerun(): the script run ends and main() starts again, with the
\* button and the chat input back to their rest values; the uploader keeps
\* its file.
RerunAfterDelete(s) ==
    /\ pc[s] = "rerun"
    /\ delete_collection' = [delete_collection EXCEPT ![s] = FALSE]
    /\ prompt' = [prompt EXCEPT ![s] = None]
    /\ rmtree_calls' = [rmtree_calls EXCEPT ![s] = 0]
    /\ rmtree_failed' = [rmtree_failed EXCEPT ![s] = FALSE]
    /\ StartRun(s)
    /\ UNCHANGED uploader
    /\ UNCHANGED deleted

\* ------------------------------------------------------------- the chat
Turn(role, content) == [role |-> role, content |-> content]

\* Mutant of Chat: the question is processed without looking at the handle.
ChatWithoutCheck(s) ==
    /\ pc[s] = "chat"
    /\ IF prompt[s] = None
       THEN /\ shown' = [shown EXCEPT ![s] =
                            IF vector_db[s] = None THEN "warning_begin" ELSE @]
            /\ pc' = [pc EXCEPT ![s] = "idle"]
            /\ UNCHANGED messages
       ELSE /\ messages' = [messages EXCEPT ![s] = Append(@, Turn("user", prompt[s]))]
            /\ pc' = [pc EXCEPT ![s] = "pq_retrieve"]
            /\ UNCHANGED shown
    /\ UNCHANGED <<storage, vector_db, file_upload, pdf_pages, widgets, build,
                   destroy, ask, history>>
    /\ UNCHANGED splitter
    /\ UNCHANGED deleted

\* Mutant of Chat: the warning of line 316 is appended as an assistant turn in
\* place of the user turn.
ChatWarningAsTurn(s) ==
    /\ pc[s] = "chat"
    /\ IF prompt[s] = None
       THEN /\ shown' = [shown EXCEPT ![s] =
                            IF vector_db[s] = None THEN "warning_begin" ELSE @]
            /\ pc' = [pc EXCEPT ![s] = "idle"]
            /\ UNCHANGED messages
       ELSE IF vector_db[s] # None
            THEN /\ messages' = [messages EXCEPT ![s] = Append(@, Turn("user", prompt[s]))]
                 /\ pc' = [pc EXCEPT ![s] = "pq_retrieve"]
                 /\ UNCHANGED shown
            ELSE /\ messages' = [messages EXCEPT ![s] = Append(@, Turn("assistant", "warning"))]
                 /\ pc' = [pc EXCEPT ![s] = "idle"]
                 /\ shown' = [shown EXCEPT ![s] = "warning_upload"]
    /\ UNCHANGED <<storage, vector_db, file_upload, pdf_pages, widgets, build,
                   destroy, ask, history>>
    /\ UNCHANGED splitter
    /\ UNCHANGED deleted

\* Lines 303-316 and 326-328.  Without a prompt the run ends (with a warning
\* when there is no index).  With one, the user turn is appended; then the
\* question is processed when the session holds an index handle, and a
\* warning is shown when it does not.
Chat(s) ==
    /\ pc[s] = "chat"
    /\ IF prompt[s] = None
       THEN /\ shown' = [shown EXCEPT ![s] =
                            IF vector_db[s] = None THEN "warning_begin" ELSE @]
            /\ pc' = [pc EXCEPT ![s] = "idle"]
            /\ UNCHANGED messages
       ELSE /\ messages' = [messages EXCEPT ![s] = Append(@, Turn("user", prompt[s]))]
            /\ IF vector_db[s] # None
               THEN /\ pc' = [pc EXCEPT ![s] = "pq_retrieve"]
                    /\ UNCHANGED shown
               ELSE /\ pc' = [pc EXCEPT ![s] = "idle"]
                    /\ shown' = [shown EXCEPT ![s] = "warning_upload"]
    /\ UNCHANGED <<storage, vector_db, file_upload, pdf_pages, widgets, build,
                   destroy, ask, history>>
    /\ UNCHANGED splitter
    /\ UNCHANGED deleted

\* Line 163: MultiQueryRetriever.from_llm is called without include_original,
\* which defaults to False.
include_original == FALSE

\* The queries the multi-query retriever searches with, given the question and
\* the number of lines the language model returned: one query per line.
GeneratedQueries(q, n) ==
    {Variant(q, i) : i \in 1..n} \cup (IF include_original THEN {Original(q)} ELSE {})

\* Lines 323-325: an exception while answering is shown and logged.
AskFailed(s) ==
    /\ shown' = [shown EXCEPT ![s] = "error"]
    /\ pc' = [pc EXCEPT ![s] = "idle"]
    /\ queries' = [queries EXCEPT ![s] = {}]
    /\ context' = [context EXCEPT ![s] = {}]

\* Mutant of Retrieve: a failure is appended to the history as the
\* assistant's turn.
RetrieveFailureAsTurn(s) ==
    /\ pc[s] = "pq_retrieve"
    /\ llm_calls' = [llm_calls EXCEPT ![s] = @ + 1]
    /\ \/ /\ AskFailed(s)
          /\ messages' = [messages EXCEPT ![s] = Append(@, Turn("assistant", "error"))]
       \/ \E n \in 0..MaxVariants :
            LET qs == GeneratedQueries(prompt[s], n) IN
            IF qs # {} /\ ~myRAG
            THEN /\ AskFailed(s)
                 /\ messages' = [messages EXCEPT ![s] = Append(@, Turn("assistant", "error"))]
            ELSE /\ queries' = [queries EXCEPT ![s] = qs]
                 /\ context' = [context EXCEPT ![s] =
                                   IF qs = {} THEN {} ELSE entries]
                 /\ pc' = [pc EXCEPT ![s] = "pq_answer"]
                 /\ UNCHANGED <<shown, messages>>
    /\ UNCHANGED <<storage, vector_db, file_upload, pdf_pages, widgets, build,
                   destroy, history>>
    /\ UNCHANGED splitter
    /\ UNCHANGED deleted

\* process_question, the retriever in the chain (lines 163-165, 178, 184): one
\* language-model call generates the variants, then the index is searched once
\* per query and the results united.  The model call may raise; a search
\* raises when the collection is not there.
Retrieve(s) ==
    /\ pc[s] = "pq_retrieve"
    /\ llm_calls' = [llm_calls EXCEPT ![s] = @ + 1]
    /\ \/ AskFailed(s)                                 \* the model call raised
       \/ \E n \in 0..MaxVariants :
            LET qs == GeneratedQueries(prompt[s], n) IN
            IF qs # {} /\ ~myRAG
            THEN AskFailed(s)                          \* the search raised
            ELSE /\ queries' = [queries EXCEPT ![s] = qs]
                 /\ context' = [context EXCEPT ![s] =
                                   IF qs = {} THEN {} ELSE entries]
                 /\ pc' = [pc EXCEPT ![s] = "pq_answer"]
                 /\ UNCHANGED shown
    /\ UNCHANGED <<storage, session, widgets, build, destroy, history>>
    /\ UNCHANGED splitter
    /\ UNCHANGED deleted

\* Mutant of Answer: the assistant turn takes the place of the last turn.
AnswerReplacesTurn(s) ==
    /\ pc[s] = "pq_answer"
    /\ llm_calls' = [llm_calls EXCEPT ![s] = @ + 1]
    /\ \/ /\ AskFailed(s)
          /\ UNCHANGED messages
       \/ /\ messages' = [messages EXCEPT ![s] =
                              [@ EXCEPT ![Len(@)] = Turn("assistant", "response")]]
          /\ shown' = [shown EXCEPT ![s] = "answered"]
          /\ pc' = [pc EXCEPT ![s] = "idle"]
          /\ queries' = [queries EXCEPT ![s] = {}]
          /\ context' = [context EXCEPT ![s] = {}]
    /\ UNCHANGED <<storage, vector_db, file_upload, pdf_pages, widgets, build,
                   destroy, history>>
    /\ UNCHANGED splitter
    /\ UNCHANGED deleted

\* process_question, the rest of the chain (lines 178-186), and lines 314-321:
\* one language-model call writes the answer from the context, and the
\* assistant turn is appended.  The model call may raise.
Answer(s) ==
    /\ pc[s] = "pq_answer"
    /\ llm_calls' = [llm_calls EXCEPT ![s] = @ + 1]
    /\ \/ /\ AskFailed(s)
          /\ UNCHANGED messages
       \/ /\ messages' = [messages EXCEPT ![s] = Append(@, Turn("assistant", "response"))]
          /\ shown' = [shown EXCEPT ![s] = "answered"]
          /\ pc' = [pc EXCEPT ![s] = "idle"]
          /\ queries' = [queries EXCEPT ![s] = {}]
          /\ context' = [context EXCEPT ![s] = {}]
    /\ UNCHANGED <<storage, vector_db, file_upload, pdf_pages, widgets, build,
                   destroy, history>>
    /\ UNCHANGED splitter
    /\ UNCHANGED deleted

\* An interaction of the user of session s, who uploads documents of docs;
\* cap bounds the history.
Interact(s, cap, docs) ==
    \/ \E d \in docs : Upload(s, d)
    \/ RemoveFile(s)
    \/ ClickDelete(s)
    \/ \E q \in Prompts : Len(messages[s]) < cap /\ Ask(s, q)
    \/ Rerun(s)

\* A step of the script run of session s.
Run(s) ==
    \/ Main(s)
    \/ Pages(s)
    \/ CleanExisting(s)
    \/ GetClient(s)
    \/ Extract(s)
    \/ FromDocuments(s)
    \/ Finally(s)
    \/ DeleteAbsent(s)
    \/ DeleteTry(s)
    \/ DeleteRetry(s)
    \/ DeleteClear(s)
    \/ RerunAfterDelete(s)
    \/ Chat(s)
    \/ Retrieve(s)
    \/ Answer(s)

\* One user: a single browser session works on the storage.
Next == Interact("s1", MaxMsgs, Docs) \/ Run("s1")

Spec == Init /\ [][Next]_vars

\* Several users: every session of the server works on the same storage path.
NextShared == \E s \in Sessions : Interact(s, MaxSharedMsgs, SharedDocs) \/ Run(s)

SpecShared == Init /\ [][NextShared]_vars

\* A script run is a thread that goes on until the script ends: a run that
\* can take a step takes one.  The user is under no such obligation.
SpecFair == Spec /\ WF_vars(Run("s1"))

\* ------------------------------------------------- the text splitter
\* create_vector_db() splits the extracted text with
\* RecursiveCharacterTextSplitter(chunk_size=7500, chunk_overlap=100).
\* A text is a sequence of one-character strings.
chunk_size    == 7500
chunk_overlap == 100

\* the splitter's defaults: separators, in the order they are tried
separators == << <<"\n", "\n">>, <<"\n">>, <<" ">>, <<>> >>

\* the characters str.strip() removes
Whitespace == {" ", "\n"}

Texts == UNION {[1..n -> Chars] : n \in 0..MaxLen}

RECURSIVE LStrip(_)
LStrip(t) ==
    IF t # <<>> /\ Head(t) \in Whitespace THEN LStrip(Tail(t)) ELSE t

RECURSIVE RStrip(_)
RStrip(t) ==
    IF t # <<>> /\ t[Len(t)] \in Whitespace
    THEN RStrip(SubSeq(t, 1, Len(t) - 1))
    ELSE t

Strip(t) == RStrip(LStrip(t))

RECURSIVE Join(_)
Join(docs) == IF docs = <<>> THEN <<>> ELSE Head(docs) \o Join(Tail(docs))

\* _join_docs with the separator "" that keep_separator=True leaves:
\* the pieces joined and stripped (strip_whitespace=True)
JoinDocs(docs) == Strip(Join(docs))

\* re.search(separator, text)
Occurs(sep, t) ==
    \E i \in 1..(Len(t) - Len(sep) + 1) : SubSeq(t, i, i + Len(sep) - 1) = sep

FirstMatch(sep, t) ==
    CHOOSE i \in 1..(Len(t) - Len(sep) + 1) :
        /\ SubSeq(t, i, i + Len(sep) - 1) = sep
        /\ \A j \in 1..(i - 1) : SubSeq(t, j, j + Len(sep) - 1) # sep

\* the pieces between the leftmost non-overlapping matches of sep
RECURSIVE Pieces(_, _)
Pieces(t, sep) ==
    IF ~Occurs(sep, t) THEN <<t>>
    ELSE LET i == FirstMatch(sep, t)
         IN  <<SubSeq(t, 1, i - 1)>>
                 \o Pieces(SubSeq(t, i + Len(sep), Len(t)), sep)

\* _split_text_with_regex with keep_separator=True: every piece after the
\* first carries the separator at its start; empty pieces are dropped
SplitWithRegex(t, sep) ==
    IF sep = <<>> THEN [i \in 1..Len(t) |-> <<t[i]>>]
    ELSE LET ps   == Pieces(t, sep)
             rest == [i \in 1..(Len(ps) - 1) |-> sep \o ps[i + 1]]
         IN  (IF ps[1] = <<>> THEN <<>> ELSE <<ps[1]>>) \o rest

RECURSIVE Total(_)
Total(docs) == IF docs = <<>> THEN 0 ELSE Len(Head(docs)) + Total(Tail(docs))

\* the while loop of _merge_splits: pieces leave the front of current_doc
\* until what is left fits the overlap and leaves room for a piece of length n
RECURSIVE PopFront(_, _)
PopFront(current_doc, n) ==
    IF \/ Total(current_doc) > chunk_overlap
       \/ (Total(current_doc) + n > chunk_size /\ Total(current_doc) > 0)
    THEN PopFront(Tail(current_doc), n)
    ELSE current_doc

NonEmpty(doc) == IF doc = <<>> THEN <<>> ELSE <<doc>>

\* _merge_splits: the loop over the pieces, then the last chunk
RECURSIVE MergeLoop(_, _)
MergeLoop(splits, current_doc) ==
    IF splits = <<>>
    THEN NonEmpty(JoinDocs(current_doc))
    ELSE LET d == Head(splits)
         IN  IF Total(current_doc) + Len(d) > chunk_size
             THEN (IF current_doc # <<>>
                   THEN NonEmpty(JoinDocs(current_doc)) ELSE <<>>)
                      \o MergeLoop(Tail(splits),
                                   Append(PopFront(current_doc, Len(d)), d))
             ELSE MergeLoop(Tail(splits), Append(current_doc, d))

MergeSplits(splits) == MergeLoop(splits, <<>>)

\* _split_text: the first separator that occurs splits the text; pieces
\* under chunk_size are merged, longer ones are split by the next separators
RECURSIVE SplitText(_, _), SplitLoop(_, _, _)
SplitLoop(splits, good_splits, new_separators) ==
    LET merged == IF good_splits # <<>> THEN MergeSplits(good_splits) ELSE <<>>
    IN  IF splits = <<>> THEN merged
        ELSE LET s == Head(splits)
             IN  IF Len(s) < chunk_size
                 THEN SplitLoop(Tail(splits), Append(good_splits, s),
                                new_separators)
                 ELSE merged
                         \o (IF new_separators = <<>> THEN <<s>>
                             ELSE SplitText(s, new_separators))
                         \o SplitLoop(Tail(splits), <<>>, new_separators)

SplitText(t, seps) ==
    LET k   == CHOOSE i \in 1..Len(seps) :
                   /\ seps[i] = <<>> \/ Occurs(seps[i], t)
                   /\ \A j \in 1..(i - 1) : seps[j] # <<>> /\ ~Occurs(seps[j], t)
        sep == seps[k]
        new_separators == IF sep = <<>> THEN <<>>
                          ELSE SubSeq(seps, k + 1, Len(seps))
    IN  SplitLoop(SplitWithRegex(t, sep), <<>>, new_separators)

\* text_splitter.split_documents([doc])
SplitDocuments ==
    /\ ~split_done
    /\ chunks' = SplitText(text, separators)
    /\ split_done' = TRUE
    /\ UNCHANGED <<storage, session, widgets, pc, build, destroy, shown, ask,
                   history, deleted, text>>

\* the splitter applied to every text within the bounds
InitSplit ==
    /\ InitProgram
    /\ text \in Texts /\ chunks = <<>> /\ split_done = FALSE

NextSplit == SplitDocuments

SpecSplit == InitSplit /\ [][NextSplit]_vars

\* ------------------------------------------------------------------ claims
\* Positions of a script run inside create_vector_db and delete_vector_db, and
\* the position at which process_question searches the index.
Building(s)   == pc[s] \in {"cvd_clean", "cvd_client", "cvd_extract",
                            "cvd_from_documents", "cvd_finally"}
Destroying(s) == pc[s] \in {"dvd_try", "dvd_retry", "dvd_clear"}
Querying(s)   == pc[s] = "pq_retrieve"

\* C1 (as claimed): once a document has been ingested after an earlier
\* successful ingest, no query is served from chunks of the earlier document:
\* the context a retrieval returns holds no chunk of a superseded document.
C1_NoSupersededChunks ==
    [][\A s \in Sessions :
          (pc[s] = "pq_retrieve" /\ pc'[s] = "pq_answer")
              => context'[s] \cap superseded = {}]_vars

\* C2 (as claimed): whenever a build is about to persist the chunks of the
\* new document, the storage holds no collection and no entries.
C2_DestroyedBeforeBuild ==
    \A s \in Sessions :
        pc[s] = "cvd_from_documents" => (~myRAG /\ entries = {})

\* C3 (as claimed): after a build that failed, the session holds no index
\* handle and the storage holds no collection.
C3_BuildAllOrNothing ==
    \A s \in Sessions :
        shown[s] = "exception" => (vector_db[s] = None /\ ~myRAG /\ entries = {})

\* C4: a question asked while the session holds no index handle ends the run
\* with the upload warning, and no language-model call is made in that run.
C4_NotReadyBeforeExpansion ==
    [][\A s \in Sessions :
          (pc[s] = "chat" /\ pc'[s] # "chat" /\ prompt[s] # None /\ vector_db[s] = None)
              => (pc'[s] = "idle" /\ shown'[s] = "warning_upload"
                    /\ llm_calls[s] = 0 /\ llm_calls'[s] = 0)]_vars

\* C4 witness: a question has been rejected for want of an index.
C4_Witness ==
    \E s \in Sessions :
        /\ pc[s] = "idle" /\ shown[s] = "warning_upload" /\ vector_db[s] = None
        /\ messages[s] # <<>> /\ messages[s][Len(messages[s])].role = "user"

\* C5 (as claimed): when delete_vector_db has completed, the conversation
\* history is empty.
C5_HistoryClearedOnDelete ==
    \A s \in Sessions : pc[s] = "rerun" => messages[s] = <<>>

\* C5 (amended): delete_vector_db leaves the conversation history as it was;
\* on completion the handle, the stored upload and the page images are gone.
C5_HistoryKeptOnDelete ==
    [][\A s \in Sessions :
          /\ Destroying(s) => messages'[s] = messages[s]
          /\ (Destroying(s) /\ pc'[s] = "rerun")
                => (vector_db'[s] = None /\ file_upload'[s] = None
                      /\ pdf_pages'[s] = None)]_vars

\* C5 witness: a delete has completed in a session with a history.
C5_Witness ==
    \E s \in Sessions :
        pc[s] = "rerun" /\ messages[s] # <<>> /\ vector_db[s] = None

\* C6 (as claimed): when the removal failed at the first attempt and at the
\* retry, the delete does not report success and the session is not left
\* without a handle while the directory is still there.
C6_DestroySurfacesFailure ==
    \A s \in Sessions :
        (pc[s] = "rerun" /\ rmtree_calls[s] = 2 /\ rmtree_failed[s])
            => (shown[s] # "success" /\ ~(vector_db[s] = None /\ chroma_db))

\* C7: a delete that finds no directory changes nothing in the storage,
\* reports success and leaves the session without a handle; and a delete
\* whose removal went through reports success and leaves neither a handle nor
\* the directory, so that a delete called right after it finds no directory.
C7_IdempotentDestroy ==
    [][\A s \in Sessions :
          /\ (pc[s] = "dvd_try" /\ pc'[s] # "dvd_try" /\ ~chroma_db)
                => (pc'[s] = "rerun" /\ shown'[s] = "success"
                      /\ vector_db'[s] = None /\ ~chroma_db' /\ UNCHANGED storage)
          /\ (Destroying(s) /\ pc'[s] = "rerun" /\ ~rmtree_failed'[s])
                => (shown'[s] = "success" /\ vector_db'[s] = None
                      /\ ~chroma_db' /\ ~myRAG' /\ entries' = {})]_vars

\* C7 witness: a delete has completed on a storage that an earlier delete
\* had removed (it was built once, is absent, and this call removed nothing).
C7_Witness ==
    \E s \in Sessions :
        /\ pc[s] = "rerun" /\ rmtree_calls[s] = 0 /\ shown[s] = "success"
        /\ ~chroma_db /\ ingested # None /\ vector_db[s] = None

\* C8 (as claimed): a build and a destroy are never in progress together, and
\* no query runs while a build or a destroy is in progress.
C8_ExclusiveAccess ==
    \A s, u \in Sessions :
        s # u => /\ ~(Building(s) /\ Destroying(u))
                 /\ ~(Querying(s) /\ (Building(u) \/ Destroying(u)))

\* C9 (as claimed): once create_vector_db has returned or raised, the
\* temporary directory it made is gone.
C9_TempDirReleased ==
    \A s \in Sessions : ~Building(s) => temp_dir[s] # "exists"

\* C10 (as claimed): when the language model returns other than 3 variants,
\* the retriever searches with the original question alone.
C10_ExpansionFallback ==
    \A s \in Sessions :
        (pc[s] = "pq_answer"
            /\ Cardinality({x \in queries[s] : x[2] > 0}) # 3)
            => queries[s] = {Original(prompt[s])}

\* C11: the chunks of a text form a sliding window over it: the first chunk
\* followed by every later chunk without its first chunk_overlap characters
\* is the text itself.
RECURSIVE DropOverlaps(_)
DropOverlaps(cs) ==
    IF cs = <<>> THEN <<>>
    ELSE SubSeq(Head(cs), chunk_overlap + 1, Len(Head(cs)))
             \o DropOverlaps(Tail(cs))

Reconstruct(cs) ==
    IF cs = <<>> THEN <<>> ELSE Head(cs) \o DropOverlaps(Tail(cs))

C11_ChunksReconstructText == split_done => Reconstruct(chunks) = text

\* C12: one destroy calls the directory removal at most twice, the first
\* attempt and one retry, and then comes to its end whatever the removals did.
C12_BoundedRetry ==
    /\ [](\A s \in Sessions : rmtree_calls[s] <= 2)
    /\ [][\A s \in Sessions :
            pc[s] = "dvd_retry" => pc'[s] = "dvd_clear" /\ rmtree_calls'[s] <= 2]_vars
    /\ (Destroying("s1") ~> pc["s1"] = "rerun")

C12_Witness ==
    pc["s1"] = "rerun" /\ rmtree_calls["s1"] = 2 /\ rmtree_failed["s1"]

\* C13: across every step that is not part of a deletion (an upload, a
\* rerun, an ask that succeeds, fails or is rejected) the history before the
\* step is a prefix of the history after it.
IsPrefix(a, b) == Len(a) <= Len(b) /\ SubSeq(b, 1, Len(a)) = a

C13_HistoryAppendOnly ==
    [][\A s \in Sessions :
          ~Destroying(s) => IsPrefix(messages[s], messages'[s])]_vars

C13_Witness ==
    /\ Len(messages["s1"]) = 4
    /\ shown["s1"] = "answered"
    /\ uploader["s1"] = "doc2"

\* C14: when retrieval or the language model fails in a session that holds an
\* index handle, the error is shown and the run ends; the handle and the
\* stored collection are as before and no assistant turn is appended.
C14_FailedAskStaysReady ==
    [][\A s \in Sessions :
          (pc[s] \in {"pq_retrieve", "pq_answer"} /\ vector_db[s] # None
              /\ shown'[s] = "error")
          => /\ pc'[s] = "idle"
             /\ vector_db'[s] = vector_db[s]
             /\ storage' = storage
             /\ messages'[s] = messages[s]
             /\ messages[s][Len(messages[s])].role = "user"]_vars

C14_Witness ==
    /\ pc["s1"] = "idle" /\ shown["s1"] = "error"
    /\ vector_db["s1"] = "Chroma" /\ myRAG /\ entries # {}
    /\ Len(messages["s1"]) = 1

\* C16: every assistant turn comes right after a user turn; the chat step of
\* an ask appends the one user turn, an answer appends the one assistant turn
\* after it, and a rejected or failed ask appends nothing more.
PairedTurns(m) ==
    \A i \in 1..Len(m) : m[i].role = "assistant" => i > 1 /\ m[i - 1].role = "user"

C16_TurnPairing ==
    /\ [](\A s \in Sessions : PairedTurns(messages[s]))
    /\ [][\A s \in Sessions :
            /\ (pc[s] = "chat" /\ prompt[s] # None)
                  => messages'[s] = Append(messages[s], Turn("user", prompt[s]))
            /\ (pc[s] = "pq_answer" /\ shown'[s] = "answered")
                  => /\ Len(messages'[s]) = Len(messages[s]) + 1
                     /\ IsPrefix(messages[s], messages'[s])
                     /\ messages'[s][Len(messages'[s])].role = "assistant"
                     /\ messages[s][Len(messages[s])] = Turn("user", prompt[s])
            /\ (pc[s] \in {"pq_retrieve", "pq_answer"} /\ shown'[s] # "answered")
                  => messages'[s] = messages[s]
            /\ pc[s] \notin {"chat", "pq_retrieve", "pq_answer"}
                  => messages'[s] = messages[s]]_vars

C16_Witness ==
    /\ Len(messages["s1"]) = 3
    /\ messages["s1"][2].role = "assistant"
    /\ messages["s1"][3].role = "user"
    /\ pc["s1"] = "idle" /\ shown["s1"] = "warning_upload"

\* C17: while a session holds an index handle no build runs in it, and its
\* script runs, with a file in the uploader or without, leave the stored
\* collection as it is; only a deletion changes it.
C17_NoRebuildWhileReady ==
    /\ [](\A s \in Sessions : Building(s) => vector_db[s] = None)
    /\ [][\A s \in Sessions :
            (vector_db[s] # None /\ ~Destroying(s))
                => storage' = storage /\ pc'[s] # "cvd_clean"]_vars

C17_Witness ==
    /\ vector_db["s1"] = "Chroma" /\ myRAG
    /\ pc["s1"] = "pages" /\ temp_dir["s1"] = "unbound"
    /\ uploader["s1"] = "doc2" /\ ingested = "doc1"

\* C15 (as claimed): from a delete that has cleared the session until the
\* user puts a document in the uploader again, the session holds no index
\* handle, no build runs in it and no question of its is processed.
C15_EmptyUntilUpload ==
    \A s \in Sessions :
        deleted[s] => /\ vector_db[s] = None
                      /\ ~Building(s)
                      /\ pc[s] \notin {"pq_retrieve", "pq_answer"}

====
